---- MODULE Spec2Model ----
(***************************************************************************)
(* Selective-classification evaluation core of sikidaten/                  *)
(* selectiveclassification:                                                *)
(*   - SelectiveAccuracyConstraint (src/sac.py), the streaming metric;     *)
(*   - bisection_method (src/train.py), the percentile calibrator;         *)
(*   - the train()/test() passes of src/train.py that drive the metric.    *)
(*                                                                         *)
(* Numbers.  Confidences and scores are floats in the program; only their  *)
(* order and their linear interpolation matter here, so they are modelled  *)
(* as integers (tenths, for the worked example of sac.py) and every        *)
(* quotient is an exact fraction <<num, den>> in lowest terms.  A risk is  *)
(* a fraction too; "a/k >= risk" is decided by cross-multiplication.       *)
(***************************************************************************)
EXTENDS Integers, Sequences, FiniteSets, TLC

VARIABLES
    \* a SelectiveAccuracyConstraint object and the result of the last call
    risk, conf, iscorrect, ret,
    \* bisection_method: arguments, the global coverage list, loop position
    score, correct, expected_coverage, results, masks, bpc,
    \* evaluate: calls of bisection_method made, result list of the earlier call
    calls, previous,
    \* main/train/test of train.py: position, arguments, loop counters
    pc, loss, pretrain, evaluate, epoch, batch_idx, abstention_results,
    \* history of the current pass: chunks given to update, compute calls
    fedConf, fedIsCorrect, computes

metricVars == <<risk, conf, iscorrect, ret>>
calibVars ==
    <<score, correct, expected_coverage, results, masks, bpc, calls, previous>>
argVars == <<loss, pretrain, evaluate>>
passVars == <<pc, epoch, batch_idx, abstention_results>>
histVars == <<fedConf, fedIsCorrect, computes>>
loopVars == <<argVars, passVars, histVars>>
vars == <<metricVars, calibVars, loopVars>>

(***************************************************************************)
(* Bounds of the model.                                                    *)
(***************************************************************************)
\* records accumulated by update calls of one metric, and number of calls
MaxN == 3
MaxUpdates == 2
\* examples handed to bisection_method, and length of the coverage list
MaxScores == 3
MaxCoverages == 2
\* args.epochs and the batches of a loader
MaxEpochs == 2
MaxBatches == 2

\* confidence levels, in tenths: those of the worked example of sac.py
ConfVals == {3, 7, 8, 9}

\* reservation scores of the examples given to the calibrator
ScoreVals == {1, 2, 4, 7}
\* requested coverages, in percent (a subset of the --coverage default)
Coverages == {10, 50, 100}
\* what --coverage accepts: any float, also outside (0, 100]
AnyCoverages == Coverages \cup {0 - 10, 0, 150}
\* coverages of the runs of the training loop
LoopCoverages == {50, 100}
\* confidences the model produces in the training loop
LoopConfVals == {3, 9}
\* --loss
Losses == {"ce", "max", "sat", "sat_entropy", "gambler"}

\* risk=0.99 is the constructor's default
DefaultRisk == <<99, 100>>
\* risks given to the constructor by a caller; sac.py's __main__ gives 1
Risks == {<<1, 2>>, <<2, 3>>, <<1, 1>>}
\* what the constructor accepts: any number, also outside (0, 1]
AnyRisks == Risks \cup {<<0 - 1, 2>>, <<0, 1>>, <<3, 2>>}

(***************************************************************************)
(* Exact fractions.                                                        *)
(***************************************************************************)
RECURSIVE GCD(_, _)
GCD(a, b) == IF b = 0 THEN a ELSE GCD(b, a % b)

\* n/d for n >= 0, d > 0, in lowest terms
Frac(n, d) == LET g == GCD(n, d) IN <<n \div g, d \div g>>

(***************************************************************************)
(* Sequences.                                                              *)
(***************************************************************************)
\* the sequences over S of 1 to n elements
NonEmptySeqs(S, n) == UNION {[1..m -> S] : m \in 1..n}

Distinct(c) == \A i, j \in 1..Len(c) : i # j => c[i] # c[j]

\* the lists of different coverages that --coverage can hold
CoverageLists(S) == {l \in NonEmptySeqs(S, MaxCoverages) : Distinct(l)}

RECURSIVE Flatten(_)
Flatten(chunks) ==
    IF chunks = <<>> THEN <<>> ELSE Head(chunks) \o Flatten(Tail(chunks))

Reverse(s) == [i \in 1..Len(s) |-> s[Len(s) + 1 - i]]

(***************************************************************************)
(* Results of a call: a returned value or a raised exception.              *)
(***************************************************************************)
None == [exc |-> "None", val |-> <<0, 1>>]
Return(v) == [exc |-> "no", val |-> v]
Raise(e) == [exc |-> e, val |-> <<0, 1>>]
Returned(r) == r.exc = "no"
Raised(r) == r.exc \notin {"no", "None"}

(***************************************************************************)
(* SelectiveAccuracyConstraint.compute                                     *)
(***************************************************************************)
\* conf.argsort(): the permutations (as index sequences) that put c in
\* ascending order.  numpy's default sort is not stable, so equal
\* confidences may come out in any order; with distinct values there is
\* exactly one.
\* the index sequences over the index set I that put c in ascending order
RECURSIVE AscendingOrders(_, _)
AscendingOrders(c, I) ==
    IF I = {} THEN {<<>>}
    ELSE LET least == {i \in I : \A j \in I : c[i] <= c[j]}
         IN UNION {{<<i>> \o p : p \in AscendingOrders(c, I \ {i})} : i \in least}
\* the input order kept: no sort
ArgSortsUnsorted(c) == {[i \in 1..Len(c) |-> i]}
ArgSorts(c) == AscendingOrders(c, 1..Len(c))

\* np.cumsum(iscorrect, 0)
RECURSIVE CumSum(_)
CumSum(b) ==
    IF b = <<>> THEN <<>>
    ELSE LET front == CumSum(SubSeq(b, 1, Len(b) - 1))
             prev == IF Len(b) = 1 THEN 0 ELSE front[Len(b) - 1]
         IN Append(front, prev + (IF b[Len(b)] THEN 1 ELSE 0))

\* the comparison with > in place of >=
MeetsRiskStrict(cum, k, r) == cum[k] * r[2] > r[1] * k
\* (cumsum / arange(1, N+1))[k] >= risk, for the 1-based prefix length k
MeetsRisk(cum, k, r) == cum[k] * r[2] >= r[1] * k

\* argmax without the flip: the first index of the forward sequence
RMaxIdxNoFlip(cum, r) ==
    LET N == Len(cum)
        hits == {j \in 0..(N - 1) : MeetsRisk(cum, j + 1, r)}
    IN CHOOSE j \in hits : \A h \in hits : j <= h
\* np.flip(cumcumisc) >= risk, then argmax: the FIRST 0-based index j of
\* the flipped sequence that meets the risk; flipped[j] is prefix N - j
RMaxIdx(cum, r) ==
    LET N == Len(cum)
        hits == {j \in 0..(N - 1) : MeetsRisk(cum, N - j, r)}
    IN CHOOSE j \in hits : \A h \in hits : j <= h

\* numcoverage counted from the end without the closing +1
ComputeSortedOffByOne(sorted, r) ==
    LET cum == CumSum(sorted)
        N == Len(sorted)
    IN IF Cardinality({k \in 1..N : MeetsRisk(cum, k, r)}) < 1
       THEN Return(<<0, 1>>)
       ELSE Return(Frac(N - (RMaxIdx(cum, r) + 1), N))
\* lines 25-35, on the correctness sequence already reordered
ComputeSorted(sorted, r) ==
    LET cum == CumSum(sorted)
        N == Len(sorted)
    IN IF Cardinality({k \in 1..N : MeetsRisk(cum, k, r)}) < 1
       THEN Return(<<0, 1>>)
       ELSE LET rmaxidx == RMaxIdx(cum, r)
                numcoverage == N - (rmaxidx + 1) + 1
            IN Return(Frac(numcoverage, N))

\* an empty accumulator read as zero records instead of failing
ComputeOutcomesEmptyAsZero(r, confChunks, iscChunks) ==
    LET c == Flatten(confChunks)
        isc == Flatten(iscChunks)
    IN IF Len(c) > Len(isc)
       THEN {Raise("IndexError")}
       ELSE {ComputeSorted([k \in 1..Len(c) |-> isc[Reverse(p)[k]]], r) :
                 p \in ArgSorts(c)}
\* every result compute() can produce on the accumulated chunks
ComputeOutcomes(r, confChunks, iscChunks) ==
    IF confChunks = <<>>
    THEN {Raise("ValueError")}   \* np.concatenate of an empty list
    ELSE LET c == Flatten(confChunks)
             isc == Flatten(iscChunks)
         IN IF Len(c) > Len(isc)
            THEN {Raise("IndexError")}   \* iscorrect[sortidx] out of bounds
            ELSE {ComputeSorted([k \in 1..Len(c) |-> isc[Reverse(p)[k]]], r) :
                      p \in ArgSorts(c)}

(***************************************************************************)
(* The metric object driven through its interface.                         *)
(***************************************************************************)
\* SelectiveAccuracyConstraint(risk): lines 10-14
NewMetric(r) ==
    /\ risk = r
    /\ conf = <<>>
    /\ iscorrect = <<>>
    /\ ret = None

\* the calibrator before any call of bisection_method
CalibIdle ==
    /\ score = <<>>
    /\ correct = <<>>
    /\ expected_coverage = <<>>
    /\ results = <<>>
    /\ masks = <<>>
    /\ bpc = "idle"
    /\ calls = 0
    /\ previous = <<>>

\* train.py not running
LoopIdle ==
    /\ pc = "idle"
    /\ loss = "ce"
    /\ pretrain = 0
    /\ evaluate = FALSE
    /\ epoch = 0
    /\ batch_idx = 0
    /\ abstention_results = 0
    /\ fedConf = <<>>
    /\ fedIsCorrect = <<>>
    /\ computes = 0

MetricInit ==
    /\ \E r \in Risks : NewMetric(r)
    /\ CalibIdle
    /\ LoopIdle

\* the effect of sacmtr = SelectiveAccuracyConstraint(risk=r) on the object
sac_init(r) ==
    /\ risk' = r
    /\ conf' = <<>>
    /\ iscorrect' = <<>>
    /\ ret' = None

\* the accumulators overwritten by the new chunks
sac_update_overwrite(c, i) ==
    /\ conf' = <<c>>
    /\ iscorrect' = <<i>>
    /\ ret' = None
    /\ UNCHANGED risk
\* the effect of sacmtr.update(c, i), lines 16-18: two appends, no check
sac_update(c, i) ==
    /\ conf' = Append(conf, c)
    /\ iscorrect' = Append(iscorrect, i)
    /\ ret' = None
    /\ UNCHANGED risk

\* the effect of sacv = sacmtr.compute(), lines 20-35
sac_compute ==
    /\ ret' \in ComputeOutcomes(risk, conf, iscorrect)
    /\ UNCHANGED <<risk, conf, iscorrect>>

\* a call of update on the metric object; the caller's arguments are kept
\* in fedConf and fedIsCorrect
Update(c, i) ==
    /\ Len(conf) < MaxUpdates
    /\ sac_update(c, i)
    /\ fedConf' = Append(fedConf, c)
    /\ fedIsCorrect' = Append(fedIsCorrect, i)
    /\ UNCHANGED <<calibVars, argVars, passVars, computes>>

\* a call of compute on the metric object
Compute ==
    /\ ret = None
    /\ sac_compute
    /\ UNCHANGED <<calibVars, loopVars>>

\* the __main__ block of sac.py: risk=1, one update with the literal tensors
ExampleConf == <<9, 8, 7, 3>>
ExampleIsCorrect == <<TRUE, TRUE, FALSE, TRUE>>
MainExample ==
    /\ risk = <<1, 1>>
    /\ conf = <<>>
    /\ ret = None
    /\ sac_update(ExampleConf, ExampleIsCorrect)
    /\ fedConf' = Append(fedConf, ExampleConf)
    /\ fedIsCorrect' = Append(fedIsCorrect, ExampleIsCorrect)
    /\ UNCHANGED <<calibVars, argVars, passVars, computes>>

\* a caller's update with any two sequences, of equal length or not
UpdateCall ==
    \E c \in NonEmptySeqs(ConfVals, MaxN - Len(Flatten(conf))),
       i \in NonEmptySeqs(BOOLEAN, MaxN - Len(Flatten(iscorrect))) : Update(c, i)

MetricNext ==
    \/ MainExample
    \/ UpdateCall
    \/ Compute

SpecMetric == MetricInit /\ [][MetricNext]_vars

\* the same object constructed with any risk: __init__ stores it unchecked
MetricAnyInit ==
    /\ \E r \in AnyRisks : NewMetric(r)
    /\ CalibIdle
    /\ LoopIdle

SpecMetricAnyRisk == MetricAnyInit /\ [][MetricNext]_vars

(***************************************************************************)
(* bisection_method (train.py), the threshold calibrator.                  *)
(***************************************************************************)
SetMin(S) == CHOOSE k \in S : \A h \in S : k <= h
RemoveAt(s, i) == SubSeq(s, 1, i - 1) \o SubSeq(s, i + 1, Len(s))

\* the values of s in ascending order (np.percentile orders its input)
RECURSIVE SortAsc(_)
SortAsc(s) ==
    IF s = <<>> THEN <<>>
    ELSE LET m == SetMin({s[i] : i \in 1..Len(s)})
             i == SetMin({j \in 1..Len(s) : s[j] = m})
         IN <<m>> \o SortAsc(RemoveAt(s, i))

\* the order statistic above the virtual index, without interpolation
PercentileHigher(a, q) ==
    LET N == Len(a)
        srt == SortAsc(a)
        lo == ((N - 1) * q) \div 100
        hi == IF lo + 1 > N - 1 THEN N - 1 ELSE lo + 1
    IN 100 * srt[hi + 1]
\* np.percentile(a, q), default (linear) method, as a number of hundredths:
\* the virtual index is (N-1)*q/100; the result interpolates between the
\* order statistics below and above it.  q must lie in [0, 100].
Percentile(a, q) ==
    LET N == Len(a)
        srt == SortAsc(a)
        pos == (N - 1) * q
        lo == pos \div 100
        gamma == pos % 100
        hi == IF lo + 1 > N - 1 THEN N - 1 ELSE lo + 1
    IN 100 * srt[lo + 1] + gamma * (srt[hi + 1] - srt[lo + 1])

\* calc_threshold(val_tensor, cov) with cov = coverage/100: the percentile
\* at 100 - cov*100
\* the percentile taken at the coverage itself
calc_threshold_at_cov(val_tensor, coverage) == Percentile(val_tensor, coverage)
calc_threshold(val_tensor, coverage) == Percentile(val_tensor, 100 - coverage)

\* the scores without the negation
pos_score == score
\* neg_score = -score, line 696
neg_score == [i \in 1..Len(score) |-> 0 - score[i]]

\* the comparison turned around
MaskBelow(neg, threshold) == [i \in 1..Len(neg) |-> 100 * neg[i] <= threshold]
\* mask = (neg_score >= threshold), threshold in hundredths
Mask(neg, threshold) == [i \in 1..Len(neg) |-> 100 * neg[i] >= threshold]

CountTrue(m) == Cardinality({i \in 1..Len(m) : m[i]})

\* the correct examples counted over the whole input, the mask ignored
CorrectSelectedUnmasked(mask) ==
    Cardinality({i \in 1..Len(correct) : correct[i]})
\* correct[mask].long().sum(), lines 704-705
CorrectSelected(mask) ==
    Cardinality({i \in 1..Len(correct) : mask[i] /\ correct[i]})

\* one call bisection_method(score, correct, results) with results = []
\* (lines 672-673 and 680-681), under the global expected_coverage
CalibInit ==
    /\ \E r \in {DefaultRisk} : NewMetric(r)
    /\ \E n \in 1..MaxScores :
         /\ score \in [1..n -> ScoreVals]
         /\ correct \in [1..n -> BOOLEAN]
    /\ expected_coverage \in CoverageLists(Coverages)
    /\ results = <<>>
    /\ masks = <<>>
    /\ bpc = "loop"
    /\ calls = 1
    /\ previous = <<>>
    /\ LoopIdle

\* the pair with its components exchanged
ResultPairSwapped(nSelected, nData, nCorrectSelected) ==
    <<Frac(nCorrectSelected, nSelected), Frac(nSelected, nData)>>
\* the pair appended at line 707: (coverage fraction, accuracy)
ResultPair(nSelected, nData, nCorrectSelected) ==
    <<Frac(nSelected, nData), Frac(nCorrectSelected, nSelected)>>

\* one iteration of the loop of lines 697-707, for the next coverage
BisectStep ==
    /\ bpc = "loop"
    /\ Len(masks) < Len(expected_coverage)
    /\ LET coverage == expected_coverage[Len(masks) + 1]
       IN IF 100 - coverage < 0 \/ 100 - coverage > 100
          THEN \* np.percentile rejects q outside [0, 100]
               /\ bpc' = "ValueError"
               /\ UNCHANGED <<results, masks>>
          ELSE LET threshold == calc_threshold(neg_score, coverage)
                   mask == Mask(neg_score, threshold)
                   nData == Len(correct)
                   nSelected == CountTrue(mask)
                   nCorrectSelected == CorrectSelected(mask)
               IN IF nSelected = 0
                  THEN /\ bpc' = "ZeroDivisionError"
                       /\ UNCHANGED <<results, masks>>
                  ELSE /\ results' = Append(results,
                              ResultPair(nSelected, nData, nCorrectSelected))
                       /\ masks' = Append(masks, mask)
                       /\ UNCHANGED bpc
    /\ UNCHANGED <<score, correct, expected_coverage, calls, previous>>
    /\ UNCHANGED <<metricVars, loopVars>>

\* the loop is exhausted and bisection_method returns
BisectReturn ==
    /\ bpc = "loop"
    /\ Len(masks) = Len(expected_coverage)
    /\ bpc' = "done"
    /\ UNCHANGED <<score, correct, expected_coverage, results, masks>>
    /\ UNCHANGED <<calls, previous>>
    /\ UNCHANGED <<metricVars, loopVars>>

\* the list of the earlier call handed on instead of a new one
ReusedResults == results
\* sr_results = [], line 680: the list given to the second call is new
FreshResults == <<>>

\* evaluate calls bisection_method a second time (lines 680-681) once the
\* first call has returned; here the second call gets the arguments of the
\* first one, whose result list the caller still holds
BisectAgain ==
    /\ bpc = "done"
    /\ calls = 1
    /\ calls' = 2
    /\ previous' = results
    /\ results' = FreshResults
    /\ masks' = <<>>
    /\ bpc' = "loop"
    /\ UNCHANGED <<score, correct, expected_coverage>>
    /\ UNCHANGED <<metricVars, loopVars>>

CalibNext == BisectStep \/ BisectReturn \/ BisectAgain

SpecCalib == CalibInit /\ [][CalibNext]_vars

\* the same call under a --coverage list that argparse accepts (type=float,
\* no range check at lines 76-77)
CalibAnyInit ==
    /\ \E r \in {DefaultRisk} : NewMetric(r)
    /\ \E n \in 1..MaxScores :
         /\ score \in [1..n -> ScoreVals]
         /\ correct \in [1..n -> BOOLEAN]
    /\ expected_coverage \in CoverageLists(AnyCoverages)
    /\ results = <<>>
    /\ masks = <<>>
    /\ bpc = "loop"
    /\ calls = 1
    /\ previous = <<>>
    /\ LoopIdle

SpecCalibAnyCoverage == CalibAnyInit /\ [][CalibNext]_vars

(***************************************************************************)
(* main(), train() and test() of train.py, as far as they drive the        *)
(* metric.  A batch contributes one chunk of confidences and one chunk of  *)
(* correctness flags, of the same length (both come from the same batch).  *)
(* The datasets of main() are not empty, so a loader yields at least one   *)
(* batch; the run modelled has batches of one example (--train-batch 1,    *)
(* --test-batch 1).  An exception ends the run (pc = "raised").            *)
(***************************************************************************)
\* line 711
fami_ce == loss \in {"ce", "max"}

\* what a batch gives to update: its confidences and its correctness flags
Batches == {<<<<v>>, <<b>>>> : v \in LoopConfVals, b \in BOOLEAN}

\* Python's round() of n/d for n >= 0, d > 0: half to even
RoundHalfEven(n, d) ==
    LET q == n \div d
        r == n % d
    IN IF 2 * r < d THEN q
       ELSE IF 2 * r > d THEN q + 1
       ELSE IF q % 2 = 0 THEN q ELSE q + 1

\* len(sorted_correct[:round(size/100*coverage)]), lines 613 and 624
CoveredLen(size, coverage) ==
    LET k == RoundHalfEven(size * coverage, 100)
    IN IF k > size THEN size ELSE k

LoopInit ==
    /\ \E r \in {DefaultRisk} : NewMetric(r)
    /\ score = <<>>
    /\ correct = <<>>
    /\ expected_coverage \in CoverageLists(LoopCoverages)
    /\ results = <<>>
    /\ masks = <<>>
    /\ bpc = "idle"
    /\ calls = 0
    /\ previous = <<>>
    /\ pc = "main"
    /\ loss \in Losses
    /\ pretrain \in {0, 1}
    /\ evaluate \in BOOLEAN
    /\ epoch = 0
    /\ batch_idx = 0
    /\ abstention_results = 0
    /\ fedConf = <<>>
    /\ fedIsCorrect = <<>>
    /\ computes = 0

\* lines 350-356 and 499-501: evaluation only; evaluate() runs the calibrator
\* (SpecCalib) and creates no metric
MainEvaluate ==
    /\ pc = "main"
    /\ evaluate
    /\ pc' = "done"
    /\ UNCHANGED <<epoch, batch_idx, abstention_results>>
    /\ UNCHANGED <<metricVars, calibVars, argVars, histVars>>

\* line 365 and lines 391-406: train() is entered and creates its metric
TrainEnter ==
    /\ pc = "main"
    /\ ~evaluate
    /\ epoch < MaxEpochs
    /\ pc' = "train_loop"
    /\ sac_init(DefaultRisk)
    /\ batch_idx' = 0
    /\ fedConf' = <<>>
    /\ fedIsCorrect' = <<>>
    /\ computes' = 0
    /\ UNCHANGED <<epoch, abstention_results>>
    /\ UNCHANGED <<calibVars, argVars>>

\* lines 407-483: one batch of train(); gambler's loss reaches no update
TrainBatch(c, i) ==
    /\ pc = "train_loop"
    /\ batch_idx < MaxBatches
    /\ IF fami_ce \/ loss \in {"sat", "sat_entropy"}
       THEN /\ sac_update(c, i)
            /\ fedConf' = Append(fedConf, c)
            /\ fedIsCorrect' = Append(fedIsCorrect, i)
       ELSE UNCHANGED <<metricVars, fedConf, fedIsCorrect>>
    /\ batch_idx' = batch_idx + 1
    /\ UNCHANGED <<pc, epoch, abstention_results, computes>>
    /\ UNCHANGED <<calibVars, argVars>>

TrainStep == \E b \in Batches : TrainBatch(b[1], b[2])

\* lines 484-493: the loader is exhausted, compute() is called, train()
\* returns to main() unless compute() raised
TrainCompute ==
    /\ pc = "train_loop"
    /\ batch_idx >= 1
    /\ sac_compute
    /\ computes' = computes + 1
    /\ pc' = IF Raised(ret') THEN "raised" ELSE "main_test"
    /\ UNCHANGED <<epoch, batch_idx, abstention_results, fedConf, fedIsCorrect>>
    /\ UNCHANGED <<calibVars, argVars>>

\* line 366 and lines 495-518: test() is entered and creates its metric
TestEnter ==
    /\ pc = "main_test"
    /\ pc' = "test_loop"
    /\ sac_init(DefaultRisk)
    /\ batch_idx' = 0
    /\ abstention_results' = 0
    /\ fedConf' = <<>>
    /\ fedIsCorrect' = <<>>
    /\ computes' = 0
    /\ UNCHANGED epoch
    /\ UNCHANGED <<calibVars, argVars>>

\* lines 519-603: one batch of test(); every loss reaches an update, and
\* past the pretraining epochs the batch is added to abstention_results
TestBatch(c, i) ==
    /\ pc = "test_loop"
    /\ batch_idx < MaxBatches
    /\ sac_update(c, i)
    /\ fedConf' = Append(fedConf, c)
    /\ fedIsCorrect' = Append(fedIsCorrect, i)
    /\ abstention_results' =
          IF epoch >= pretrain THEN abstention_results + Len(i)
          ELSE abstention_results
    /\ batch_idx' = batch_idx + 1
    /\ UNCHANGED <<pc, epoch, computes>>
    /\ UNCHANGED <<calibVars, argVars>>

TestStep == \E b \in Batches : TestBatch(b[1], b[2])

\* lines 604-626: the loader is exhausted; past the pretraining epochs the
\* per-coverage accuracies are printed, sum(covered)/len(covered) each
TestReport ==
    /\ pc = "test_loop"
    /\ batch_idx >= 1
    /\ pc' = IF /\ epoch >= pretrain
                /\ \E k \in 1..Len(expected_coverage) :
                      CoveredLen(abstention_results, expected_coverage[k]) = 0
             THEN "raised"   \* ZeroDivisionError
             ELSE "test_compute"
    /\ UNCHANGED <<epoch, batch_idx, abstention_results>>
    /\ UNCHANGED <<metricVars, calibVars, argVars, histVars>>

\* lines 628-636: compute() is called and test() returns to main()
TestCompute ==
    /\ pc = "test_compute"
    /\ sac_compute
    /\ computes' = computes + 1
    /\ pc' = IF Raised(ret') THEN "raised" ELSE "main"
    /\ epoch' = IF Raised(ret') THEN epoch ELSE epoch + 1
    /\ abstention_results' = IF Raised(ret') THEN abstention_results ELSE 0
    /\ UNCHANGED <<batch_idx, fedConf, fedIsCorrect>>
    /\ UNCHANGED <<calibVars, argVars>>

\* lines 378-389: the epochs are done
MainFinish ==
    /\ pc = "main"
    /\ ~evaluate
    /\ epoch = MaxEpochs
    /\ pc' = "done"
    /\ UNCHANGED <<epoch, batch_idx, abstention_results>>
    /\ UNCHANGED <<metricVars, calibVars, argVars, histVars>>

LoopNext ==
    \/ MainEvaluate
    \/ TrainEnter
    \/ TrainStep
    \/ TrainCompute
    \/ TestEnter
    \/ TestStep
    \/ TestReport
    \/ TestCompute
    \/ MainFinish

SpecLoop == LoopInit /\ [][LoopNext]_vars

(***************************************************************************)
(* Properties of the metric (checked under SpecMetric).                    *)
(***************************************************************************)
allConf == Flatten(conf)
allIsCorrect == Flatten(iscorrect)
Computed == ret # None
\* the accumulators hold N >= 1 records: a confidence and a correctness each
HasRecords == Len(allConf) >= 1 /\ Len(allConf) = Len(allIsCorrect)

\* correct records among the k most confident ones (distinct confidences)
TopCorrect(c, isc, k) ==
    Cardinality({i \in 1..Len(c) :
        isc[i] /\ Cardinality({j \in 1..Len(c) : c[j] > c[i]}) < k})
\* prefix lengths whose accuracy is at least the risk
ValidPrefixes(c, isc, r) ==
    {k \in 1..Len(c) : TopCorrect(c, isc, k) * r[2] >= r[1] * k}
SetMax(S) == CHOOSE k \in S : \A h \in S : k >= h

\* C1: on N >= 1 records with pairwise distinct confidences compute()
\* returns k*/N for the largest prefix length k* of the confidence-descending
\* order whose accuracy is >= risk, and returns 0 exactly when there is none.
C1_LargestPrefix ==
    (Computed /\ HasRecords /\ Distinct(allConf)) =>
        LET V == ValidPrefixes(allConf, allIsCorrect, risk)
        IN /\ Returned(ret)
           /\ V # {} => ret.val = Frac(SetMax(V), Len(allConf))
           /\ V = {} <=> ret.val = <<0, 1>>
\* a non-monotone case: a shorter prefix fails the risk, a longer one meets it
C1_Witness ==
    /\ Computed /\ HasRecords /\ Distinct(allConf)
    /\ LET V == ValidPrefixes(allConf, allIsCorrect, risk)
       IN \E k \in 1..Len(allConf) : k \notin V /\ \E h \in V : h > k /\ 1 \in V

\* C2: the worked example (confidences .9 .8 .7 .3, correctness T T F T,
\* risk 1, one update) computes 2/4 = 0.5.
C2_WorkedExample ==
    (Computed /\ risk = <<1, 1>> /\ conf = <<ExampleConf>>
        /\ iscorrect = <<ExampleIsCorrect>>) => ret = Return(<<1, 2>>)
C2_Witness ==
    /\ Returned(ret) /\ risk = <<1, 1>>
    /\ conf = <<ExampleConf>> /\ iscorrect = <<ExampleIsCorrect>>

\* C5: when risk is at or below the global accuracy (correct / N, N >= 1)
\* compute() returns 1.0, however the correct records are distributed.
GlobalCorrect == Cardinality({i \in 1..Len(allIsCorrect) : allIsCorrect[i]})
RiskAtMostGlobalAccuracy ==
    risk[1] * Len(allConf) <= GlobalCorrect * risk[2]
C5_FullCoverage ==
    (Computed /\ HasRecords /\ RiskAtMostGlobalAccuracy) =>
        ret = Return(<<1, 1>>)
\* full coverage although some shorter prefix is below the risk
C5_Witness ==
    /\ Returned(ret) /\ HasRecords /\ RiskAtMostGlobalAccuracy
    /\ \E p \in ArgSorts(allConf) :
         LET cum == CumSum([k \in 1..Len(allConf) |-> allIsCorrect[Reverse(p)[k]]])
         IN \E k \in 1..Len(allConf) : ~MeetsRisk(cum, k, risk)

\* the error class of the specification for a failing metric call
InvalidState(r) == r.exc \in {"ValueError", "IndexError"}

\* C7: compute() on a metric that received no update fails with an
\* InvalidState error and returns no coverage value.
C7_EmptyFails ==
    (Computed /\ conf = <<>>) => (InvalidState(ret) /\ ~Returned(ret))
C7_Witness == conf = <<>> /\ iscorrect = <<>> /\ Raised(ret)

\* the records of the accumulators rearranged by the permutation q
Permuted(s, q) == [k \in 1..Len(s) |-> s[q[k]]]
Perms(n) == {p \in [1..n -> 1..n] : \A i, j \in 1..n : i # j => p[i] # p[j]}
SameForEveryOrder ==
    \A q \in Perms(Len(allConf)) :
        ComputeOutcomes(risk, <<Permuted(allConf, q)>>,
                              <<Permuted(allIsCorrect, q)>>) = {ret}

\* C8 as stated: the computed value is the same for every order of the same
\* records, records of equal confidence included.
C8_OrderIndependent == (Computed /\ HasRecords) => SameForEveryOrder
\* C8 amended: the computed value is the same for every order of the same
\* records when their confidences are pairwise distinct.
C8_OrderIndependentDistinct ==
    (Computed /\ HasRecords /\ Distinct(allConf)) => SameForEveryOrder
\* three records fed out of confidence order, correctness not constant
C8_Witness ==
    /\ Returned(ret) /\ HasRecords /\ Distinct(allConf) /\ Len(allConf) = 3
    /\ allConf[1] < allConf[2]
    /\ allIsCorrect[1] # allIsCorrect[2]
    /\ ret.val \notin {<<0, 1>>, <<1, 1>>}

\* some update call got sequences of different lengths
Mismatched == \E k \in 1..Len(conf) : Len(conf[k]) # Len(iscorrect[k])

\* C9: after an update with confidence and correctness sequences of
\* different lengths the metric fails with InvalidState and returns no value.
C9_MismatchFails == (Computed /\ Mismatched) => InvalidState(ret)

\* a risk in (0, 1]
ValidRisk(r) == 0 < r[1] /\ r[1] <= r[2]

\* C14: a metric configured with a risk outside (0,1] is rejected: compute()
\* never returns a coverage value for it.  (Under SpecMetricAnyRisk.)
C14_BadRiskRejected == (Computed /\ ~ValidRisk(risk)) => ~Returned(ret)

\* the step is a call of update: the caller handed over a pair of chunks
UpdateCalled == Len(fedConf') = Len(fedConf) + 1
\* the chunks handed over by that call
GivenConf == fedConf'[Len(fedConf')]
GivenIsCorrect == fedIsCorrect'[Len(fedIsCorrect')]

\* C15: an update call appends exactly the given confidence chunk and the
\* given correctness chunk at the end of the two accumulators and computes
\* nothing; the stored chunks and the risk stay as they were, and no step on
\* the instance makes an accumulator shorter or changes the risk.
C15_UpdateAppends ==
    [][/\ risk' = risk
       /\ Len(conf') >= Len(conf)
       /\ Len(iscorrect') >= Len(iscorrect)
       /\ SubSeq(conf', 1, Len(conf)) = conf
       /\ SubSeq(iscorrect', 1, Len(iscorrect)) = iscorrect
       /\ UpdateCalled =>
             /\ conf' = Append(conf, GivenConf)
             /\ iscorrect' = Append(iscorrect, GivenIsCorrect)
             /\ ret' = None
       /\ ~UpdateCalled => (conf' = conf /\ iscorrect' = iscorrect)]_vars
\* two update calls with different chunks, the first with chunks of unequal
\* lengths, stored as they were given
C15_Witness ==
    /\ Len(conf) = 2 /\ conf[1] # conf[2]
    /\ Len(conf[1]) # Len(iscorrect[1])
    /\ fedConf = conf /\ fedIsCorrect = iscorrect
    /\ ret = None

(***************************************************************************)
(* Properties of the calibrator (checked under SpecCalib).                 *)
(***************************************************************************)
InRange(c) == 0 < c /\ c <= 100
\* the coverages processed so far, and their positions
Processed == 1..Len(masks)
Selected(k) == {i \in 1..Len(score) : masks[k][i]}

\* the j-th smallest value of s, j counted from 0
OrderStat(s, j) ==
    CHOOSE v \in {s[i] : i \in 1..Len(s)} :
        /\ Cardinality({i \in 1..Len(s) : s[i] < v}) <= j
        /\ j < Cardinality({i \in 1..Len(s) : s[i] <= v})
\* the linearly interpolated q-th percentile of s, in hundredths: the point
\* at h = (N-1)*q/100 of the polygon through the order statistics of s
InterpolatedPercentile(s, q) ==
    LET h100 == (Len(s) - 1) * q
        lo == CHOOSE j \in 0..(Len(s) - 1) : 100 * j <= h100 /\ h100 < 100 * (j + 1)
        hi == IF lo = Len(s) - 1 THEN lo ELSE lo + 1
    IN 100 * OrderStat(s, lo) + (h100 - 100 * lo) * (OrderStat(s, hi) - OrderStat(s, lo))
\* the examples whose negated score is at least that percentile
AtLeastPercentile(c) ==
    {i \in 1..Len(score) :
        100 * (0 - score[i]) >= InterpolatedPercentile(neg_score, 100 - c)}

\* C3: for a non-empty input and coverages in (0,100], bisection_method
\* appends one pair per coverage, in the order of the coverages, and the pair
\* is (nSelected/N, nCorrectSelected/nSelected) for the examples whose negated
\* score is >= the interpolated (100-c)-th percentile of the negated scores.
C3_PairPerCoverage ==
    (bpc # "idle" /\ \A k \in 1..Len(expected_coverage) : InRange(expected_coverage[k])) =>
        /\ bpc \in {"loop", "done"}
        /\ Len(results) = Len(masks)
        /\ bpc = "done" => Len(results) = Len(expected_coverage)
        /\ \A k \in 1..Len(results) :
             LET sel == AtLeastPercentile(expected_coverage[k])
                 nCorrect == Cardinality({i \in sel : correct[i]})
             IN /\ sel # {}
                /\ results[k] = <<Frac(Cardinality(sel), Len(score)),
                                  Frac(nCorrect, Cardinality(sel))>>
\* a finished call with two different coverages and a proper selection
C3_Witness ==
    /\ bpc = "done" /\ Len(results) = 2
    /\ expected_coverage[1] > expected_coverage[2]
    /\ results[1][1] # results[2][1]
    /\ results[2][2] \notin {<<0, 1>>, <<1, 1>>}

\* C4: with pairwise distinct scores and N*c/100 an integer m, exactly the m
\* examples of lowest reservation score are selected and the emitted coverage
\* fraction is c/100.
LowestScores(m) ==
    {i \in 1..Len(score) : Cardinality({j \in 1..Len(score) : score[j] < score[i]}) < m}
C4_ExactCoverage ==
    \A k \in Processed :
        LET c == expected_coverage[k]
            N == Len(score)
        IN (Distinct(score) /\ InRange(c) /\ (N * c) % 100 = 0) =>
              /\ Selected(k) = LowestScores((N * c) \div 100)
              /\ results[k][1] = Frac(c, 100)
\* distinct scores and a coverage that selects some but not all examples
C4_Witness ==
    /\ Distinct(score)
    /\ \E k \in Processed :
         /\ (Len(score) * expected_coverage[k]) % 100 = 0
         /\ Selected(k) # {} /\ Selected(k) # 1..Len(score)

\* C6: for coverages c1 < c2 in (0,100] on the same examples the selection
\* at c1 is a subset of the selection at c2.
C6_MonotoneSelection ==
    \A j, k \in Processed :
        (InRange(expected_coverage[j]) /\ InRange(expected_coverage[k])
            /\ expected_coverage[j] < expected_coverage[k]) =>
                Selected(j) \subseteq Selected(k)
\* two coverages whose selections differ, on scores with a tie
C6_Witness ==
    /\ Len(masks) = 2 /\ ~Distinct(score)
    /\ expected_coverage[1] < expected_coverage[2]
    /\ Selected(1) # Selected(2) /\ Selected(1) # {}

\* a fraction <<n, d>> between 0 and 1
InUnitInterval(f) == f[2] > 0 /\ 0 <= f[1] /\ f[1] <= f[2]

\* C11: every pair emitted for a non-empty input and a coverage in (0,100]
\* has a coverage fraction in [0,1] and an accuracy in [0,1]: the correct
\* selected examples are at most the selected ones, which are at most N.
C11_PairsInUnitInterval ==
    \A k \in 1..Len(results) :
        (Len(score) >= 1 /\ InRange(expected_coverage[k])) =>
            /\ InUnitInterval(results[k][1])
            /\ InUnitInterval(results[k][2])
            /\ Cardinality({i \in Selected(k) : correct[i]}) <= Cardinality(Selected(k))
            /\ Cardinality(Selected(k)) <= Len(score)
\* a pair strictly inside the interval in both components, some correct
\* example left out of the selection
C11_Witness ==
    \E k \in 1..Len(results) :
        /\ InRange(expected_coverage[k])
        /\ results[k][1] \notin {<<0, 1>>, <<1, 1>>}
        /\ results[k][2] \notin {<<0, 1>>, <<1, 1>>}
        /\ \E i \in 1..Len(score) : correct[i] /\ i \notin Selected(k)

C13_OutOfRangeRejected ==
    /\ \A k \in 1..Len(results) : InRange(expected_coverage[k])
    /\ bpc = "done" => \A k \in 1..Len(expected_coverage) : InRange(expected_coverage[k])

\* the examples of minimum reservation score
MinScoreExamples ==
    {i \in 1..Len(score) : \A j \in 1..Len(score) : score[i] <= score[j]}

\* C17: for a non-empty set of examples, tied scores or not, and a coverage
\* in (0,100], the selection holds every example of minimum reservation
\* score, so nSelected >= 1 and the accuracy never divides by zero.
C17_MinimumScoreSelected ==
    /\ bpc # "ZeroDivisionError"
    /\ \A k \in Processed :
          (Len(score) >= 1 /\ InRange(expected_coverage[k])) =>
              /\ MinScoreExamples \subseteq Selected(k)
              /\ Cardinality(Selected(k)) >= 1
              /\ results[k][2][2] >= 1
\* the smallest coverage on scores tied at the minimum: the selection is
\* those tied examples and leaves others out
C17_Witness ==
    \E k \in Processed :
        /\ expected_coverage[k] = 10
        /\ Cardinality(MinScoreExamples) = 2
        /\ Selected(k) = MinScoreExamples
        /\ Selected(k) # 1..Len(score)

\* the correct examples of the whole input
TotalCorrect == Cardinality({i \in 1..Len(correct) : correct[i]})

\* C19: for coverage 100 and a non-empty input all N examples are selected:
\* the emitted coverage fraction is 1 and the emitted accuracy is the global
\* accuracy, total correct / N.
C19_FullCoverageSelectsAll ==
    \A k \in Processed :
        (Len(score) >= 1 /\ expected_coverage[k] = 100) =>
            /\ Selected(k) = 1..Len(score)
            /\ results[k] = <<<<1, 1>>, Frac(TotalCorrect, Len(score))>>
\* coverage 100 processed after a coverage that selected fewer examples, on
\* distinct scores with correct and incorrect examples
C19_Witness ==
    /\ Len(masks) = 2 /\ expected_coverage[2] = 100
    /\ Selected(1) # Selected(2)
    /\ Distinct(score) /\ Len(score) >= 2
    /\ TotalCorrect \notin {0, Len(score)}

(***************************************************************************)
(* Properties of the passes (checked under SpecLoop).                      *)
(***************************************************************************)
InBatchLoop == pc \in {"train_loop", "test_loop"}
\* the current pass has ended: train() or test() returned, or it raised
PassReturned ==
    \/ pc = "main_test"
    \/ pc \in {"main", "done"} /\ ~evaluate /\ epoch > 0
PassOver == PassReturned \/ pc = "raised"

\* what every pass keeps, also one that ends in an exception: the metric is
\* new when the batch loop starts, compute() is not called before the loop
\* ends nor twice, and a computed value comes from the chunks of this pass
PassLifecycle ==
    /\ (InBatchLoop /\ batch_idx = 0) =>
          (risk = DefaultRisk /\ conf = <<>> /\ iscorrect = <<>>)
    /\ computes <= 1
    /\ (InBatchLoop \/ pc = "test_compute") => computes = 0
    /\ PassReturned => (computes = 1 /\ Returned(ret))
    /\ computes = 1 => ret \in ComputeOutcomes(DefaultRisk, fedConf, fedIsCorrect)

\* C16: in every train() pass over a non-empty loader, whatever the loss, an
\* update has reached the metric once a batch has been processed, so that
\* compute() at the end of the pass does not run on an empty accumulator.
C16_TrainUpdatesBeforeCompute ==
    /\ (pc = "train_loop" /\ batch_idx >= 1) => Len(conf) >= 1
    /\ computes = 1 => (Len(fedConf) >= 1 /\ ret # Raise("ValueError"))

\* the report of test() is due: past the pretraining epochs, N >= 1 examples
ReportDue == pc = "test_loop" /\ batch_idx >= 1 /\ epoch >= pretrain
\* the pass was ended by an exception raised before compute() was called
RaisedBeforeCompute == pc = "raised" /\ computes = 0

\* C18: in the coverage report of test(), for a non-empty pass of size N and
\* every requested coverage c in (0,100], the covered prefix
\* sorted_correct[:round(N/100*c)] is non-empty, so the printed accuracy is
\* defined and the report raises nothing.
C18_CoveredPrefixNonEmpty ==
    /\ ReportDue =>
          \A k \in 1..Len(expected_coverage) :
              InRange(expected_coverage[k]) =>
                  CoveredLen(abstention_results, expected_coverage[k]) >= 1
    /\ ~RaisedBeforeCompute

\* C10: every train() and test() pass creates a new metric before its batch
\* loop and calls compute() on it exactly once, after the last update, so
\* that the computed value depends on the records of that pass only.
C10_ComputeOncePerPass ==
    /\ PassLifecycle
    /\ PassOver => computes = 1

====
